---------------------------- MODULE Spec2Model ----------------------------
(***************************************************************************)
(* Model of packages/features/bookings/lib/getBookingFields.ts:            *)
(*   - getAvailability (lines 249-309): expansion of working hours and     *)
(*     date overrides into concrete intervals in a target timezone;        *)
(*   - ensureBookingInputsHaveSystemFields (lines 60-245): completion of a *)
(*     booking-fields list with the six system fields.                     *)
(*                                                                         *)
(* Time is counted in minutes since 1970-01-01T00:00Z.  A JS Date is its   *)
(* instant.  A Dayjs object is a record [ts, off]: its instant and the     *)
(* fixed UTC offset it carries; every getter of the object (day, format,   *)
(* hour) reads the clock ts + off.                                         *)
(***************************************************************************)
EXTENDS Integers, Sequences, FiniteSets, TLC

VARIABLES
    timeZone,          \* argument timeZone
    availability,      \* argument availability: sequence of rules
    dateFrom,          \* argument dateFrom (instant)
    dateTo,            \* argument dateTo (instant)
    workingDates,      \* const workingDates (line 260)
    dateOverrides,     \* const dateOverrides (line 284)
    mergeAvailability, \* const mergeAvailability (line 303)
    result,            \* the returned array (line 308)
    pc,                \* position inside getAvailability
    bookingFields,     \* ensureBookingInputsHaveSystemFields: bookingFields
    customInputs,      \* ensureBookingInputsHaveSystemFields: customInputs
    disableGuests,     \* ensureBookingInputsHaveSystemFields: disableGuests
    additionalNotesRequired, \* ... additionalNotesRequired
    handleMigration,   \* const handleMigration (line 72)
    fpc                \* position inside ensureBookingInputsHaveSystemFields

avVars == <<timeZone, availability, dateFrom, dateTo, workingDates,
            dateOverrides, mergeAvailability, result, pc>>
fieldVars == <<bookingFields, customInputs, disableGuests,
               additionalNotesRequired, handleMigration, fpc>>
vars == <<avVars, fieldVars>>

---------------------------------------------------------------------------
(* Bounds of the checked inputs *)

\* longest availability list
MaxRules == 2
\* longest requested range, in days (three weeks)
MaxSpanDays == 21
\* longest stored bookingFields list
MaxFields == 3
\* longest customInputs list
MaxInputs == 2

---------------------------------------------------------------------------
(* Calendar arithmetic of Date / dayjs (proleptic Gregorian, UTC) *)

MinutesPerDay == 24 * 60

\* days since the epoch of the civil date y-m-d
DaysFromCivil(y, m, d) ==
    LET yy  == IF m <= 2 THEN y - 1 ELSE y
        era == yy \div 400
        yoe == yy - era * 400
        mp  == IF m > 2 THEN m - 3 ELSE m + 9
        doy == (153 * mp + 2) \div 5 + d - 1
        doe == yoe * 365 + yoe \div 4 - yoe \div 100 + doy
    IN  era * 146097 + doe - 719468

\* the civil date <<y, m, d>> of a day number
CivilFromDays(z) ==
    LET zz  == z + 719468
        era == zz \div 146097
        doe == zz - era * 146097
        yoe == (doe - doe \div 1460 + doe \div 36524 - doe \div 146096) \div 365
        doy == doe - (365 * yoe + yoe \div 4 - yoe \div 100)
        mp  == (5 * doy + 2) \div 153
        d   == doy - (153 * mp + 2) \div 5 + 1
        m   == IF mp < 10 THEN mp + 3 ELSE mp - 9
        y   == yoe + era * 400
    IN  <<IF m <= 2 THEN y + 1 ELSE y, m, d>>

\* Date.prototype.getUTCHours / getUTCMinutes
GetUTCHours(t) == (t \div 60) % 24
GetUTCMinutes(t) == t % 60

\* Date.prototype.toISOString, to the minute: <<YYYY, MM, DD, hh, mm>>
ToISOString(t) ==
    CivilFromDays(t \div MinutesPerDay) \o <<GetUTCHours(t), GetUTCMinutes(t)>>

\* String.prototype.substring(0, 10) of an ISO string: "YYYY-MM-DD"
Substring10(iso) == SubSeq(iso, 1, 3)

\* dayjs.utc(string): parses "YYYY-MM-DD" or a full ISO string as UTC
DayjsUtc(str) ==
    [ts  |-> DaysFromCivil(str[1], str[2], str[3]) * MinutesPerDay
             + (IF Len(str) > 3 THEN str[4] * 60 + str[5] ELSE 0),
     off |-> 0]

---------------------------------------------------------------------------
(* Timezones: the offset, in minutes, a zone has at an instant *)

Zones == {"UTC", "America/New_York", "America/Bogota", "Asia/Kolkata"}

\* America/New_York leaves EST for EDT on 2024-03-10 at 07:00Z
NewYorkSpringForward == DaysFromCivil(2024, 3, 10) * MinutesPerDay + 7 * 60

ZoneOffset(tz, ts) ==
    CASE tz = "UTC"              -> 0
      [] tz = "America/New_York" -> IF ts < NewYorkSpringForward
                                    THEN 0 - 5 * 60 ELSE 0 - 4 * 60
      [] tz = "America/Bogota"   -> 0 - 5 * 60
      [] tz = "Asia/Kolkata"     -> 5 * 60 + 30

---------------------------------------------------------------------------
(* dayjs operations used by getAvailability *)

\* the clock a Dayjs object shows
LocalClock(d) == d.ts + d.off

IsBeforeOrSame(a, b) == a.ts <= b.ts

\* a.isBefore(b)
IsBefore(a, b) == a.ts < b.ts

\* date.add(1, "day") on a UTC object
AddDay(d) == [d EXCEPT !.ts = @ + MinutesPerDay]

AddMinutesDropped(d, n) == d

\* d.add(n, "minutes"): moves the instant, keeps the offset the object carries
AddMinutes(d, n) == [d EXCEPT !.ts = @ + n]

\* d.tz(timeZone, true): the zone's offset at d's instant, then the instant
\* is shifted so that the object shows the clock d showed
TzKeepLocal(d, tz) ==
    LET newOffset == ZoneOffset(tz, d.ts)
    IN  [ts |-> d.ts + (d.off - newOffset), off |-> newOffset]

\* dayjs.tz(date, timeZone) with a Date argument: dayjs(date).tz(timeZone),
\* the instant is kept and shown in the zone
DayjsTz(date, tz) == [ts |-> date, off |-> ZoneOffset(tz, date)]

\* d.hour(h)
SetHour(d, h) == [d EXCEPT !.ts = @ + (h - GetUTCHours(LocalClock(d))) * 60]

\* d.minute(m)
SetMinute(d, m) == [d EXCEPT !.ts = @ + (m - GetUTCMinutes(LocalClock(d)))]

\* d.day(): weekday of the clock the object shows, 0 = Sunday
\* (1970-01-01 was a Thursday)
Day(d) == ((LocalClock(d) \div MinutesPerDay) + 4) % 7

\* d.format("YYYY-MM-DD")
Format(d) == CivilFromDays(LocalClock(d) \div MinutesPerDay)

---------------------------------------------------------------------------
(* Record<string, {start, end}[]>: entries <<key, list>> in insertion order *)

Keys(rec) == {rec[i][1] : i \in 1..Len(rec)}

Get(rec, key) ==
    LET i == CHOOSE i \in 1..Len(rec) : rec[i][1] = key IN rec[i][2]

\* dates[key] = dates[key] ?? []; dates[key].push(interval)
Push(rec, key, interval) ==
    IF key \in Keys(rec)
    THEN [i \in 1..Len(rec) |->
            IF rec[i][1] = key THEN <<key, Append(rec[i][2], interval)>>
            ELSE rec[i]]
    ELSE Append(rec, <<key, <<interval>> >>)

RECURSIVE SpreadConcat(_, _)
SpreadConcat(a, b) ==
    IF b = <<>> THEN a
    ELSE LET k == Head(b)[1]
             merged == IF k \in Keys(a)
                       THEN [i \in 1..Len(a) |->
                               IF a[i][1] = k
                               THEN <<k, a[i][2] \o Head(b)[2]>> ELSE a[i]]
                       ELSE Append(a, Head(b))
         IN  SpreadConcat(merged, Tail(b))

RECURSIVE Spread(_, _)
\* { ...a, ...b }: a key of b overwrites the value of the same key of a
Spread(a, b) ==
    IF b = <<>> THEN a
    ELSE LET k == Head(b)[1]
             merged == IF k \in Keys(a)
                       THEN [i \in 1..Len(a) |->
                               IF a[i][1] = k THEN Head(b) ELSE a[i]]
                       ELSE Append(a, Head(b))
         IN  Spread(merged, Tail(b))

RECURSIVE Flat(_)
\* Object.values(rec).flat()
Flat(rec) == IF rec = <<>> THEN <<>> ELSE Head(rec)[2] \o Flat(Tail(rec))

---------------------------------------------------------------------------
(* Availability rules.  An optional value is <<>> (undefined / null) or    *)
(* <<v>>.  The fields rule and kind of an interval name the rule and the   *)
(* reduce that pushed the object; the program does not read them.          *)

Undefined == <<>>
Null == <<>>
Some(v) == <<v>>

\* typeof value.days !== "undefined"
DaysDefined(block) == block.days # Undefined

\* !!availability.date
DateSet(rule) == rule.date # Null

DaysIncludesAny(block, wd) == TRUE

\* block.days?.includes(wd)
DaysIncludes(block, wd) ==
    /\ DaysDefined(block)
    /\ \E j \in 1..Len(block.days[1]) : block.days[1][j] = wd

MinutesOf(t) == GetUTCHours(t) * 60 + GetUTCMinutes(t)

RECURSIVE WalkBlock(_, _, _, _, _, _)
\* the for loop of lines 263-280 for one block, from `date` on (the
\* conjunct on Len has TLC evaluate the accumulator at every iteration)
WalkBlock(dates, i, block, date, tz, to) ==
    IF Len(dates) >= 0 /\ ~IsBefore(date, DayjsUtc(ToISOString(to))) THEN dates
    ELSE
      LET startDate == AddMinutes(TzKeepLocal(date, tz), MinutesOf(block.startTime))
          endDate   == AddMinutes(TzKeepLocal(date, tz), MinutesOf(block.endTime))
          next == IF DaysIncludes(block, Day(startDate))
                  THEN Push(dates, Format(startDate),
                            [start |-> startDate, end |-> endDate,
                             rule |-> i, kind |-> "working"])
                  ELSE dates
      IN  WalkBlock(next, i, block, AddDay(date), tz, to)

RECURSIVE ReduceWorking(_, _, _, _, _, _)
\* availability.filter(days defined).reduce(...), lines 260-282
ReduceWorking(dates, i, av, tz, from, to) ==
    IF i > Len(av) THEN dates
    ELSE
      LET walked == IF DaysDefined(av[i])
                    THEN WalkBlock(dates, i, av[i],
                                   DayjsUtc(Substring10(ToISOString(from))), tz, to)
                    ELSE dates
      IN  ReduceWorking(walked, i + 1, av, tz, from, to)

RECURSIVE ReduceOverrides(_, _, _, _)
\* availability.filter(date set).reduce(...), lines 284-301
ReduceOverrides(dates, i, av, tz) ==
    IF i > Len(av) THEN dates
    ELSE
      LET override == av[i]
          start == SetMinute(SetHour(DayjsTz(override.date[1], tz),
                                     GetUTCHours(override.startTime)),
                             GetUTCMinutes(override.startTime))
          end   == SetMinute(SetHour(DayjsTz(override.date[1], tz),
                                     GetUTCHours(override.endTime)),
                             GetUTCMinutes(override.endTime))
          next == IF DateSet(override)
                  THEN Push(dates, Format(start),
                            [start |-> start, end |-> end,
                             rule |-> i, kind |-> "override"])
                  ELSE dates
      IN  ReduceOverrides(next, i + 1, av, tz)

---------------------------------------------------------------------------
(* Inputs *)

\* 2024-03-09, a Saturday; the 10th is the day New York changes its offset
BaseDay == DaysFromCivil(2024, 3, 9)

At(day, h, m) == day * MinutesPerDay + h * 60 + m

\* stored times carry an arbitrary date (1970-01-02 here)
StartTimes == {At(1, 9, 30)}
EndTimes == {At(0, 17, 0), At(0, 8, 0)}
AllDays == <<0, 1, 2, 3, 4, 5, 6>>
OverrideDate == At(BaseDay + 2, 0, 0)

Rules ==
    [startTime : StartTimes, endTime : EndTimes, date : {Null},
     days : {Some(AllDays)}]
    \cup
    [startTime : StartTimes, endTime : {At(0, 17, 0)}, date : {Null},
     days : {Some(<<1>>)}]
    \cup
    [startTime : StartTimes, endTime : {At(0, 17, 0)}, date : {Some(OverrideDate)},
     days : {Undefined, Some(<<>>), Some(AllDays)}]
    \cup
    [startTime : StartTimes, endTime : {At(0, 8, 0)}, date : {Some(OverrideDate)},
     days : {Undefined}]

Availabilities == UNION {[1..n -> Rules] : n \in 0..MaxRules}

DateFroms == {At(BaseDay, 0, 0), At(BaseDay, 10, 0)}
DateTos == {At(BaseDay, 0, 0), At(BaseDay, 5, 0), At(BaseDay + 3, 0, 0),
            At(BaseDay + MaxSpanDays, 0, 0)}

---------------------------------------------------------------------------
(* getAvailability as a state machine *)

FieldsIdle ==
    /\ bookingFields = <<>>
    /\ customInputs = <<>>
    /\ disableGuests = FALSE
    /\ additionalNotesRequired = FALSE
    /\ handleMigration = FALSE
    /\ fpc = "idle"

Init ==
    /\ timeZone \in Zones
    /\ availability \in Availabilities
    /\ dateFrom \in DateFroms
    /\ dateTo \in DateTos
    /\ workingDates = <<>>
    /\ dateOverrides = <<>>
    /\ mergeAvailability = <<>>
    /\ result = <<>>
    /\ pc = "workingDates"
    /\ FieldsIdle

\* lines 260-282
ExpandWorkingDates ==
    /\ pc = "workingDates"
    /\ workingDates' = ReduceWorking(<<>>, 1, availability, timeZone, dateFrom, dateTo)
    /\ pc' = "dateOverrides"
    /\ UNCHANGED <<timeZone, availability, dateFrom, dateTo, dateOverrides,
                   mergeAvailability, result, fieldVars>>

\* lines 284-301
ExpandDateOverrides ==
    /\ pc = "dateOverrides"
    /\ dateOverrides' = ReduceOverrides(<<>>, 1, availability, timeZone)
    /\ pc' = "merge"
    /\ UNCHANGED <<timeZone, availability, dateFrom, dateTo, workingDates,
                   mergeAvailability, result, fieldVars>>

\* lines 303-308
MergeAndReturn ==
    /\ pc = "merge"
    /\ mergeAvailability' = Spread(workingDates, dateOverrides)
    /\ result' = Flat(mergeAvailability')
    /\ pc' = "done"
    /\ UNCHANGED <<timeZone, availability, dateFrom, dateTo, workingDates,
                   dateOverrides, fieldVars>>

Next == ExpandWorkingDates \/ ExpandDateOverrides \/ MergeAndReturn

Spec == Init /\ [][Next]_vars

---------------------------------------------------------------------------
(* Vocabulary of the properties of getAvailability *)

Done == pc = "done"

Count(S) == Cardinality(S)

\* positions of the returned array
Returned == 1..Len(result)

\* the date key an interval is filed under
KeyOf(iv) == Format(iv.start)

OverrideKeys == Keys(dateOverrides)

\* UTC day numbers d with (UTC date of dateFrom at 00:00Z) <= d and d
\* strictly before the instant dateTo
WalkedDayNumbers ==
    {d \in (dateFrom \div MinutesPerDay)..(dateTo \div MinutesPerDay) :
        d * MinutesPerDay < dateTo}

WeekdayOfDayNumber(d) == (d + 4) % 7

RuleMatches(i, d) ==
    /\ availability[i].days # Undefined
    /\ \E j \in 1..Len(availability[i].days[1]) :
          availability[i].days[1][j] = WeekdayOfDayNumber(d)

\* the clock the target timezone itself shows at the instant of a Dayjs object
ZoneClock(d) == d.ts + ZoneOffset(timeZone, d.ts)

---------------------------------------------------------------------------
\* C1: a date key present both in the recurring expansion and in the
\* override mapping is returned with exactly the override mapping's
\* intervals (every override rule's interval is among the returned ones),
\* none of its recurring intervals; a date without override keeps all its
\* recurring intervals.
C1_OverridePrecedence ==
    Done =>
      /\ \A k \in Keys(workingDates) \cap OverrideKeys :
            /\ SelectSeq(result, LAMBDA iv : KeyOf(iv) = k) = Get(dateOverrides, k)
            /\ \A n \in Returned : KeyOf(result[n]) = k => result[n].kind = "override"
      /\ \A k \in Keys(workingDates) \ OverrideKeys :
            SelectSeq(result, LAMBDA iv : KeyOf(iv) = k) = Get(workingDates, k)
      /\ \A i \in 1..Len(availability) :
            DateSet(availability[i]) =>
              Count({n \in Returned : result[n].kind = "override"
                                      /\ result[n].rule = i}) = 1

\* a rule without date and an override rule file an interval under one key
C1_Witness ==
    /\ Done
    /\ \E k \in Keys(workingDates) \cap OverrideKeys :
          /\ \E n \in 1..Len(Get(workingDates, k)) :
                ~DateSet(availability[Get(workingDates, k)[n].rule])
          /\ \E n \in Returned : KeyOf(result[n]) = k

\* C2: when dateTo <= dateFrom no recurring expansion takes place: the
\* result holds override intervals only.
C2_NoExpansionOnEmptyRange ==
    (pc # "workingDates" /\ dateTo <= dateFrom) =>
      /\ workingDates = <<>>
      /\ \A n \in Returned : result[n].kind = "override"

\* C3: the walk visits exactly the UTC days from dateFrom's UTC date up to,
\* excluding, the instant dateTo: every recurring interval is keyed under
\* such a day, and every such day yields the interval of every rule whose
\* days hold its weekday.
C3_DayWalkExclusive ==
    pc # "workingDates" =>
      /\ \A k \in Keys(workingDates) :
            \E d \in WalkedDayNumbers : k = CivilFromDays(d)
      /\ \A d \in WalkedDayNumbers : \A i \in 1..Len(availability) :
            RuleMatches(i, d) =>
              /\ CivilFromDays(d) \in Keys(workingDates)
              /\ \E n \in 1..Len(Get(workingDates, CivilFromDays(d))) :
                    Get(workingDates, CivilFromDays(d))[n].rule = i

\* dateFrom at 00:00Z, dateTo at 00:00Z three days later: days 1, 2 and 3
\* are walked and the day of dateTo is not
C3_Witness ==
    /\ pc # "workingDates"
    /\ dateFrom = At(BaseDay, 0, 0)
    /\ dateTo = At(BaseDay + 3, 0, 0)
    /\ Keys(workingDates) = {<<2024, 3, 9>>, <<2024, 3, 10>>, <<2024, 3, 11>>}

\* C4 as stated: every returned interval has start < end, whatever the rules.
C4_StartBeforeEnd_AnyRule ==
    Done => \A n \in Returned : result[n].start.ts < result[n].end.ts

\* C4 amended: every returned interval of a rule whose startTime hour:minute
\* is before its endTime hour:minute has start < end; an interval of any
\* other rule has not.
C4_StartBeforeEnd ==
    Done =>
      \A n \in Returned :
        LET r == availability[result[n].rule]
        IN  (MinutesOf(r.startTime) < MinutesOf(r.endTime))
              <=> (result[n].start.ts < result[n].end.ts)

C4_Witness ==
    /\ Done
    /\ \E n, m \in Returned :
          /\ result[n].kind = "working" /\ result[m].kind = "override"
          /\ result[n].start.ts < result[n].end.ts
          /\ result[m].start.ts < result[m].end.ts

\* C5: a rule with date contributes override intervals only, a rule without
\* date contributes recurring intervals only.
C5_ExactlyOneKind ==
    Done =>
      \A n \in Returned :
        (result[n].kind = "override") <=> DateSet(availability[result[n].rule])

\* C6: an override whose date is 00:00Z of civil date D yields exactly one
\* interval, keyed under D, from startTime to endTime hour:minute on D.
C6_OverrideAnchoredOnItsDate ==
    Done =>
      \A i \in 1..Len(availability) :
        DateSet(availability[i]) =>
          LET r == availability[i]
              D == r.date[1] \div MinutesPerDay
          IN  /\ Count({n \in Returned : result[n].kind = "override"
                                         /\ result[n].rule = i}) = 1
              /\ \A n \in Returned :
                    (result[n].kind = "override" /\ result[n].rule = i) =>
                      /\ KeyOf(result[n]) = CivilFromDays(D)
                      /\ LocalClock(result[n].start)
                            = D * MinutesPerDay + MinutesOf(r.startTime)
                      /\ LocalClock(result[n].end)
                            = D * MinutesPerDay + MinutesOf(r.endTime)

\* C7: on a date without override the result holds exactly one interval for
\* each pair (rule with days, walked day) whose weekday is in the rule's
\* days, keyed under the day's civil date, and no other recurring interval.
C7_WeekdayFilterNoDedup ==
    Done =>
      /\ \A d \in WalkedDayNumbers : \A i \in 1..Len(availability) :
            CivilFromDays(d) \notin OverrideKeys =>
              Count({n \in Returned : /\ result[n].kind = "working"
                                      /\ result[n].rule = i
                                      /\ KeyOf(result[n]) = CivilFromDays(d)})
                = IF RuleMatches(i, d) THEN 1 ELSE 0
      /\ \A n \in Returned :
            result[n].kind = "working" =>
              \E d \in WalkedDayNumbers :
                /\ KeyOf(result[n]) = CivilFromDays(d)
                /\ CivilFromDays(d) \notin OverrideKeys
                /\ RuleMatches(result[n].rule, d)
                /\ Day(result[n].start) = WeekdayOfDayNumber(d)

\* two rules with days = [1] over three weeks: one interval per rule and
\* week, on the Monday, the two of a Monday equal in start and end
C7_Witness ==
    /\ Done
    /\ Len(availability) = 2
    /\ \A i \in 1..2 : availability[i].days = Some(<<1>>)
    /\ availability[1] = availability[2]
    /\ dateTo - dateFrom = MaxSpanDays * MinutesPerDay
    /\ Len(result) = 2 * (MaxSpanDays \div 7)
    /\ \A n \in Returned : Day(result[n].start) = 1
    /\ \E n, m \in Returned :
          /\ n # m
          /\ result[n].start = result[m].start
          /\ result[n].end = result[m].end

\* C8: the start and the end of a recurring interval, read on the clock of
\* the target timezone, show the rule's startTime and endTime hour:minute
\* on the civil date the interval is keyed under.
C8_WallClockInZone ==
    Done =>
      \A n \in Returned :
        result[n].kind = "working" =>
          LET r == availability[result[n].rule]
          IN  /\ ZoneClock(result[n].start) % MinutesPerDay = MinutesOf(r.startTime)
              /\ ZoneClock(result[n].end) % MinutesPerDay = MinutesOf(r.endTime)
              /\ CivilFromDays(ZoneClock(result[n].start) \div MinutesPerDay)
                    = KeyOf(result[n])

\* C9: every returned interval lies on a civil date of the requested range;
\* an override whose date is outside the range contributes nothing.
C9_WithinRequestedRange ==
    Done =>
      \A n \in Returned :
        \E d \in WalkedDayNumbers : KeyOf(result[n]) = CivilFromDays(d)

---------------------------------------------------------------------------
(* ensureBookingInputsHaveSystemFields, lines 60-245.  A field is a record *)
(* [name, type, editable, required, hidden, label, options]; a property    *)
(* the object does not carry is "undefined" (FALSE for hidden, <<>> for    *)
(* options).                                                               *)

\* SystemField, line 23
SystemField == {"name", "email", "location", "notes", "guests", "rescheduleReason"}

\* SystemFieldsEditability, lines 25-32
SystemFieldsEditability(name) ==
    CASE name \in {"name", "email", "location", "rescheduleReason"} -> "system"
      [] name \in {"notes", "guests"} -> "system-but-optional"

\* CustomInputTypeToFieldType, lines 73-80
CustomInputTypeToFieldType(type) ==
    CASE type = "TEXT"     -> "text"
      [] type = "TEXTLONG" -> "textarea"
      [] type = "NUMBER"   -> "number"
      [] type = "BOOL"     -> "boolean"
      [] type = "RADIO"    -> "radio"
      [] type = "PHONE"    -> "phone"

SystemFieldOf(name, type, required, hidden) ==
    [name |-> name, type |-> type, editable |-> "undefined",
     required |-> required, hidden |-> hidden, label |-> "undefined",
     options |-> <<>>]

\* systemBeforeFields, lines 83-140
systemBeforeFields ==
    << SystemFieldOf("name", "name", TRUE, FALSE),
       SystemFieldOf("email", "email", TRUE, FALSE),
       SystemFieldOf("location", "radioInput", FALSE, FALSE) >>

\* systemAfterFields, lines 143-186
systemAfterFields(notesRequired, guestsHidden) ==
    << SystemFieldOf("notes", "textarea", notesRequired, FALSE),
       SystemFieldOf("guests", "multiemail", FALSE, guestsHidden),
       SystemFieldOf("rescheduleReason", "textarea", FALSE, FALSE) >>

\* bookingFields.find((f) => f.name === name) finds a field
Find(fields, name) == \E i \in 1..Len(fields) : fields[i].name = name

\* the loops of lines 188-194 and 222-228: the system fields not yet held
Missing(systemFields, fields) ==
    SelectSeq(systemFields, LAMBDA field : ~Find(fields, field.name))

\* slugify of @calcom/lib/slugify on the labels of CustomInputSet: whitespace
\* becomes "-", letters are lowered
Slugify(label) ==
    CASE label = "Phone Number" -> "phone-number"
      [] label = "Team Size"    -> "team-size"
      [] label = "Company"      -> "company"

\* the field pushed for one custom input, lines 201-218
FieldOfInput(input) ==
    [name |-> Slugify(input.label), type |-> CustomInputTypeToFieldType(input.type),
     editable |-> "user", required |-> input.required, hidden |-> FALSE,
     label |-> input.label,
     options |-> [i \in 1..Len(input.options) |->
                    [label |-> input.options[i].label,
                     value |-> input.options[i].label]]]

\* the map of lines 232-242
ResetEditability(field) ==
    IF field.name \in SystemField
    THEN [field EXCEPT !.editable = SystemFieldsEditability(field.name)]
    ELSE field

(* Inputs *)

StoredField(name, type, editable) ==
    [name |-> name, type |-> type, editable |-> editable, required |-> FALSE,
     hidden |-> FALSE, label |-> "undefined", options |-> <<>>]

StoredFields ==
    { StoredField("name", "name", "system"),
      StoredField("email", "email", "user"),
      StoredField("notes", "textarea", "system-but-optional"),
      StoredField("company", "text", "user"),
      StoredField("team-size", "number", "user") }

CustomInputSet ==
    { [label |-> "Phone Number", type |-> "PHONE", required |-> FALSE, options |-> <<>>],
      [label |-> "Team Size", type |-> "NUMBER", required |-> TRUE, options |-> <<>>],
      [label |-> "Company", type |-> "RADIO", required |-> FALSE,
       options |-> <<[label |-> "Acme"]>>] }

AvailabilityIdle ==
    /\ timeZone = "UTC"
    /\ availability = <<>>
    /\ dateFrom = 0
    /\ dateTo = 0
    /\ workingDates = <<>>
    /\ dateOverrides = <<>>
    /\ mergeAvailability = <<>>
    /\ result = <<>>
    /\ pc = "idle"

InitFields ==
    /\ bookingFields \in UNION {[1..n -> StoredFields] : n \in 0..MaxFields}
    /\ customInputs \in UNION {[1..n -> CustomInputSet] : n \in 0..MaxInputs}
    /\ disableGuests \in BOOLEAN
    /\ additionalNotesRequired \in BOOLEAN
    /\ handleMigration = FALSE
    /\ fpc = "before"
    /\ AvailabilityIdle

\* lines 72 and 188-196
AddMissingSystemBeforeFields ==
    /\ fpc = "before"
    /\ handleMigration' = (Len(bookingFields) = 0)
    /\ bookingFields' = Missing(systemBeforeFields, bookingFields) \o bookingFields
    /\ fpc' = "migrate"
    /\ UNCHANGED <<customInputs, disableGuests, additionalNotesRequired, avVars>>

\* lines 199-220
MigrateCustomInputs ==
    /\ fpc = "migrate"
    /\ bookingFields' =
          IF handleMigration
          THEN bookingFields \o [i \in 1..Len(customInputs) |-> FieldOfInput(customInputs[i])]
          ELSE bookingFields
    /\ fpc' = "after"
    /\ UNCHANGED <<customInputs, disableGuests, additionalNotesRequired,
                   handleMigration, avVars>>

\* lines 222-230
AddMissingSystemAfterFields ==
    /\ fpc = "after"
    /\ bookingFields' =
          bookingFields \o Missing(systemAfterFields(additionalNotesRequired, disableGuests),
                                   bookingFields)
    /\ fpc' = "editability"
    /\ UNCHANGED <<customInputs, disableGuests, additionalNotesRequired,
                   handleMigration, avVars>>

\* lines 232-244
ResetEditabilityAndReturn ==
    /\ fpc = "editability"
    /\ bookingFields' = [i \in 1..Len(bookingFields) |-> ResetEditability(bookingFields[i])]
    /\ fpc' = "done"
    /\ UNCHANGED <<customInputs, disableGuests, additionalNotesRequired,
                   handleMigration, avVars>>

NextFields ==
    \/ AddMissingSystemBeforeFields
    \/ MigrateCustomInputs
    \/ AddMissingSystemAfterFields
    \/ ResetEditabilityAndReturn

SpecFields == InitFields /\ [][NextFields]_vars

---------------------------------------------------------------------------
\* C10: the returned list holds the six system fields; name, email and
\* location come before every user field and notes, guests and
\* rescheduleReason after every user field.
C10_SystemFieldsPresentAndOrdered ==
    fpc = "done" =>
      /\ \A name \in SystemField : Find(bookingFields, name)
      /\ \A i, j \in 1..Len(bookingFields) :
            /\ (bookingFields[i].name \in {"name", "email", "location"}
                /\ bookingFields[j].name \notin SystemField) => i < j
            /\ (bookingFields[i].name \in {"notes", "guests", "rescheduleReason"}
                /\ bookingFields[j].name \notin SystemField) => j < i

=============================================================================
